---- MODULE Spec2Model ----
(***************************************************************************)
(* A model of PopenProcMgr (src/process.py), its _StdStreamManager with    *)
(* the background file_size_monitor, and TextFileParser (src/text.py).     *)
(*                                                                         *)
(* One control thread calls the controller's API; the child process and   *)
(* one monitor thread per stream capture run concurrently with it.  A     *)
(* backing file is a sequence of bytes; the read handle and the write     *)
(* handle (whose offset the child shares) each have their own offset.     *)
(* An optional value (Python's None) is a sequence of length 0 or 1.      *)
(***************************************************************************)
EXTENDS Integers, Sequences, FiniteSets, TLC

\* ---------------------------------------------------------------- bounds
MaxLines == 2       \* lines the children write in total
MaxStarts == 2      \* child processes one controller spawns
MaxResets == 1      \* overflow resets one monitor performs
MaxSize == 1        \* the positive size ceiling tried (bytes)
MaxKids == 2        \* descendants one child forks
MaxBytes == 4       \* bytes a child writes byte by byte
MaxLen == 2         \* largest |max_len_one_line| a caller passes

\* ------------------------------------------------------------- constants
NL == 10            \* b'\n'
NUL == 0            \* the byte a hole of a sparse file reads as
SIGKILL == 9        \* a killed child reports -SIGKILL
Retries == 3        \* range(3) of the decode loop
ReplacementChar == 65533

Slots == {"out", "err"}
Pids == 1 .. MaxStarts
ExitCodes == {3}
LineNums == {-1, 0, 1}
LineIds == 1 .. MaxLines

None == << >>
Some(x) == << x >>
Val(o) == o[1]

Min(a, b) == IF a < b THEN a ELSE b
Max(a, b) == IF a > b THEN a ELSE b

\* The bytes of the k-th line a child writes: one ASCII letter and b'\n'.
LineBytes(k) == << 64 + k, NL >>

\* What a reader with the default max_len_one_line = -1 returns for line k.
LineText(k) == << 64 + k >>

\* ------------------------------------------------------- text.py (reader)
\* fileIO.readline() at offset c of file f: up to and including the next
\* b'\n', or to the end of the file; b'' at or past the end.
ReadLine(f, c) ==
    IF c >= Len(f) THEN << >>
    ELSE LET ends == { i \in (c + 1) .. Len(f) : f[i] = NL }
             stop == IF ends = {} THEN Len(f)
                     ELSE CHOOSE i \in ends : \A j \in ends : i <= j
         IN  SubSeq(f, c + 1, stop)

\* raw_line[:m] as Python slices: a negative m counts from the end.
PySlice(raw, m) ==
    IF m >= 0 THEN SubSeq(raw, 1, Min(m, Len(raw)))
    ELSE SubSeq(raw, 1, Max(Len(raw) + m, 0))

\* bytes.decode(enc, errors): "utf-8" accepts the bytes below 128, the
\* detected legacy encoding accepts every byte.
ValidByte(b, enc) == enc = "legacy" \/ b < 128

CanDecode(raw, enc) == \A i \in 1 .. Len(raw) : ValidByte(raw[i], enc)

DecodeByte(b, enc) ==
    IF ValidByte(b, enc) THEN (IF b < 128 THEN b ELSE 1000 + b)
    ELSE ReplacementChar

Decode(raw, enc) == [ i \in 1 .. Len(raw) |-> DecodeByte(raw[i], enc) ]

\* One decode with no second try: a line that fails is left out.
DecodeOnce(raw, d, strict, oracle, tries) ==
    IF CanDecode(raw, d.enc)
    THEN [ d EXCEPT !.ok = TRUE, !.text = Decode(raw, d.enc) ]
    ELSE [ d EXCEPT !.ok = FALSE ]

\* The for retry_count in range(3) loop on one raw line.  d carries the
\* locals encoding / errors_strategy and self._fixed_encoding; oracle is
\* what detect_bytes_encoding answers for this line ("" when it finds none),
\* and d.asked counts the calls of detect_bytes_encoding for this line.
RECURSIVE DecodeRetry(_, _, _, _, _)
DecodeRetry(raw, d, strict, oracle, tries) ==
    IF tries = 0 THEN [ d EXCEPT !.ok = FALSE ]
    ELSE IF d.errors = "replace" \/ CanDecode(raw, d.enc)
         THEN [ d EXCEPT !.ok = TRUE, !.text = Decode(raw, d.enc) ]
    ELSE IF strict /\ oracle = ""
         THEN [ d EXCEPT !.ok = FALSE, !.raised = TRUE, !.asked = @ + 1 ]
    ELSE IF oracle = ""
         THEN DecodeRetry(raw, [ d EXCEPT !.errors = "replace", !.asked = @ + 1 ],
                          strict, oracle, tries - 1)
    ELSE DecodeRetry(raw, [ d EXCEPT !.enc = oracle, !.fixed = oracle,
                                     !.asked = @ + 1 ],
                     strict, oracle, tries - 1)

\* TextFileParser.__readlines_with_encoding_fix: the while loop, from read
\* offset r.cur of file f.  r: [lines, size, cur, enc, errors, fixed, raised,
\* log]; r.log keeps, for each readline() of the call, the bytes read, the
\* bytes left by the slice, the encoding and the learned encoding the line
\* started with, and how often the oracle was asked about it.
RECURSIVE ReadLoop(_, _, _, _, _, _)
ReadLoop(f, r, n, maxlen, strict, oracle) ==
    IF ~ (n = -1 \/ Len(r.lines) < n) THEN r
    ELSE
      LET raw == ReadLine(f, r.cur)
          r1 == [ r EXCEPT !.size = r.size + Len(raw), !.cur = r.cur + Len(raw) ]
          cut == PySlice(raw, maxlen)
          entry == [ raw |-> raw, cut |-> cut, enc |-> r.enc,
                     fixed |-> r.fixed, asked |-> 0 ]
      IN  IF Len(cut) = 0 THEN [ r1 EXCEPT !.log = Append(r.log, entry) ]
          ELSE
            LET d == DecodeRetry(cut,
                       [ enc |-> r.enc, errors |-> r.errors, fixed |-> r.fixed,
                         ok |-> FALSE, raised |-> FALSE, text |-> << >>,
                         asked |-> 0 ],
                       strict, oracle, Retries)
                r2 == [ r1 EXCEPT !.enc = d.enc, !.errors = d.errors,
                                  !.fixed = d.fixed, !.raised = d.raised,
                                  !.lines = IF d.ok THEN Append(r.lines, d.text)
                                            ELSE r.lines,
                                  !.log = Append(r.log,
                                            [ entry EXCEPT !.asked = d.asked ]) ]
            IN  IF d.raised THEN r2
                ELSE ReadLoop(f, r2, n, maxlen, strict, oracle)

\* A readlines that forgets what the reader learned: every call starts
\* from the default encoding.
ReadLinesFromDefault(f, c, fixed, n, maxlen, strict, oracle) ==
    ReadLoop(f,
             [ lines |-> << >>, size |-> 0, cur |-> c, enc |-> "utf-8",
               errors |-> "strict", fixed |-> fixed, raised |-> FALSE,
               log |-> << >> ],
             n, maxlen, strict, oracle)

\* readlines(line_num, max_len_one_line, strict_decode) on a reader whose
\* handle is at offset c and whose learned encoding is fixed.
ReadLines(f, c, fixed, n, maxlen, strict, oracle) ==
    ReadLoop(f,
             [ lines |-> << >>, size |-> 0, cur |-> c,
               enc |-> IF fixed = "" THEN "utf-8" ELSE fixed,
               errors |-> "strict", fixed |-> fixed, raised |-> FALSE,
               log |-> << >> ],
             n, maxlen, strict, oracle)

\* TextFileParser.reach_end: tell() >= getsize(path).
ReachEnd(f, c) == c >= Len(f)


\* ------------------------------------------------------------------ state
VARIABLES
    cfg,        \* construction options of the controller
    popen,      \* self._popen: None or the pid of the attached child
    stdinOpen,  \* self._stdin_file_stream is an open file
    spawned,    \* children spawned so far (pids 1 .. spawned)
    oscode,     \* per pid: None while it runs, else its exit status
    mgr,        \* per slot: None or the manager (named by its backing file)
    disk,       \* the backing files that exist on disk
    nfiles,     \* backing files created so far
    file,       \* per manager slot: the bytes of the backing file
    cur,        \* per manager slot: offset of the read handle
    woff,       \* per manager slot: offset of the write handle / child
    hopen,      \* per manager slot: the two handles are open
    stop,       \* per manager slot: _size_monitor_signal is set
    mon,        \* per manager slot: where the monitor thread is
    resets,     \* per manager slot: resets the monitor has completed
    fixedEnc,   \* per manager slot: the reader's _fixed_encoding
    path,       \* per manager slot: the backing file of its last manager
    pc,         \* where the control thread is inside _wait
    wtimeout,   \* _wait: a timeout was given
    wdel,       \* _wait: del_tmpfile
    buf,        \* _wait: stdout_lines / stderr_lines
    err,        \* the exception the last API call ended with ("" if none)
    result,     \* what the last wait()/run() returned or raised
    written,    \* per manager slot: << id, epoch >> of each line the attached
                \* child wrote; epoch: resets completed before, -1 during one
    got,        \* per stream: lines pick_* handed out since start
    nwritten,   \* lines written by all children
    kids,       \* per descendant of the attached child: "none", "run", "dead"
    kret        \* what the last kill() returned (None, True, False)

procVars == << spawned, oscode, kids, kret >>
mgrVars == << mgr, disk, nfiles >>
strmVars == << file, cur, woff, hopen, stop, mon, resets, fixedEnc, path >>
waitVars == << pc, wtimeout, wdel, buf >>
histVars == << written, got, nwritten >>
vars == << cfg, popen, stdinOpen, procVars, mgrVars, strmVars, waitVars,
           err, result, histVars >>

NoLines == [ s \in Slots |-> << >> ]
NoResult == [ kind |-> "none" ]

Kids == 1 .. MaxKids
NoKids == [ i \in Kids |-> "none" ]

\* In merge mode _stderr_manager is _stdout_manager: one object, one file.
Store(s) == IF cfg.merge THEN "out" ELSE s

Collects(s) == IF s = "out" THEN cfg.collect_stdout ELSE cfg.collect_stderr

Running(p) == p <= spawned /\ oscode[p] = None

\* Popen.poll() is None
Living == Running(Val(popen))

\* An __init__ without its assert.
ValidAlways(c) == TRUE

\* The assert of __init__: merge needs both streams collected.
ValidConfig(c) == c.merge => (c.collect_stdout /\ c.collect_stderr)

Config(out, errs, merge, stdin, maxout, maxerr) ==
    [ collect_stdout |-> out, collect_stderr |-> errs, merge |-> merge,
      stdin |-> stdin, max |-> [ s \in Slots |-> IF s = "out" THEN maxout ELSE maxerr ] ]

\* stdout_buffer_size / stderr_buffer_size <= 0: no bounding.
PlainConfigs ==
    { Config(TRUE, TRUE, FALSE, TRUE, -1, -1),
      Config(TRUE, TRUE, TRUE, FALSE, -1, 0),
      Config(TRUE, FALSE, FALSE, FALSE, 0, -1),
      Config(FALSE, TRUE, FALSE, TRUE, -1, -1),
      Config(FALSE, FALSE, FALSE, FALSE, -1, -1) }

\* A ceiling of MaxSize bytes on the one backing file.
CeilingConfigs ==
    { Config(TRUE, FALSE, FALSE, FALSE, MaxSize, -1),
      Config(TRUE, TRUE, TRUE, TRUE, MaxSize, MaxSize) }

\* _setup_output_manager: a fresh manager, with a fresh backing file, for
\* each collected stream; in merge mode stderr shares the stdout manager.
\* A manager is named by the number of its backing file; n files exist.
SetupMgr(c, m, n) ==
    [ s \in Slots |->
        IF s = "out"
        THEN (IF c.collect_stdout THEN Some(n + 1) ELSE m[s])
        ELSE (IF ~ c.collect_stderr THEN m[s]
              ELSE IF c.merge
                   THEN (IF c.collect_stdout THEN Some(n + 1) ELSE m["out"])
              ELSE IF c.collect_stdout THEN Some(n + 2) ELSE Some(n + 1)) ]

\* The slots whose manager _setup_output_manager constructs.
Fresh(c) ==
    { s \in Slots : (s = "out" /\ c.collect_stdout)
                    \/ (s = "err" /\ c.collect_stderr /\ ~ c.merge) }

NewFids(c, n) == (n + 1) .. (n + Cardinality(Fresh(c)))

\* _StdStreamManager.__init__: the monitor thread is started when
\* max_size > 0.
MonStart(c, s) == IF c.max[s] > 0 THEN "check" ELSE "off"

\* file_size_monitor: beyond_size > max_size * 0.5
Overflow(size, max) == 2 * (size - max) > max

\* A write of bytes at offset off of file f (a hole reads as NUL).
WriteAt(f, off, bytes) ==
    [ i \in 1 .. Max(Len(f), off + Len(bytes)) |->
        IF i > off /\ i <= off + Len(bytes) THEN bytes[i - off]
        ELSE IF i <= Len(f) THEN f[i] ELSE NUL ]

\* still_remain_output_to_read
HasBacklog(s) == mgr[s] # None /\ ~ ReachEnd(file[Store(s)], cur[Store(s)])
StillRemain == HasBacklog("out") \/ HasBacklog("err")

\* ------------------------------------------------------------------- Init
\* The state after PopenProcMgr.__init__, which already runs
\* _setup_output_manager once (process.py line 164).
InitOf(configs) ==
    /\ cfg \in configs
    /\ ValidConfig(cfg)
    /\ popen = None
    /\ stdinOpen = FALSE
    /\ spawned = 0
    /\ oscode = [ p \in Pids |-> None ]
    /\ mgr = SetupMgr(cfg, [ s \in Slots |-> None ], 0)
    /\ disk = NewFids(cfg, 0)
    /\ nfiles = Cardinality(Fresh(cfg))
    /\ file = [ s \in Slots |-> << >> ]
    /\ cur = [ s \in Slots |-> 0 ]
    /\ woff = [ s \in Slots |-> 0 ]
    /\ hopen = [ s \in Slots |-> s \in Fresh(cfg) ]
    /\ stop = [ s \in Slots |-> FALSE ]
    /\ mon = [ s \in Slots |-> IF s \in Fresh(cfg) THEN MonStart(cfg, s) ELSE "off" ]
    /\ resets = [ s \in Slots |-> 0 ]
    /\ fixedEnc = [ s \in Slots |-> "" ]
    /\ path = [ s \in Slots |-> IF s \in Fresh(cfg) THEN Val(mgr[s]) ELSE 0 ]
    /\ pc = "idle"
    /\ wtimeout = FALSE
    /\ wdel = TRUE
    /\ buf = NoLines
    /\ err = ""
    /\ result = NoResult
    /\ written = NoLines
    /\ got = NoLines
    /\ nwritten = 0
    /\ kids = NoKids
    /\ kret = None

\* Controllers without a size ceiling: no monitor thread is started.
Init == InitOf(PlainConfigs)

\* Controllers with a size ceiling on their stream capture.
InitMon == InitOf(CeilingConfigs)

\* ------------------------------------------------- controller operations
\* What _kill_process_tree can come to when the child is running: the tree
\* is killed (True); a psutil.AccessDenied / NoSuchProcess / OSError is
\* caught (False); or a wait(1) on a process that has not gone within the
\* second raises psutil.TimeoutExpired, which no except clause catches.
KillOutcomes == { "ok", "fail", "expired" }

\* A kill() that signals nothing: the child's status stays as it was.
KillCodeNoSignal(k) == oscode

\* kill(): nothing unless is_living(); the child's status afterwards.
KillCode(k) ==
    IF Living /\ k = "ok" THEN [ oscode EXCEPT ![Val(popen)] = Some(0 - SIGKILL) ]
    ELSE oscode

\* kill()'s return value: None, True or False.
KillRet(k) == IF ~ Living THEN None ELSE Some(k = "ok")

KillRaises(k) == Living /\ k = "expired"

\* start() after its assertion: new managers, stdin, spawn.
DoStart ==
    /\ mgr' = SetupMgr(cfg, mgr, nfiles)
    /\ disk' = disk \cup NewFids(cfg, nfiles)
    /\ nfiles' = nfiles + Cardinality(Fresh(cfg))
    /\ file' = [ s \in Slots |-> IF s \in Fresh(cfg) THEN << >> ELSE file[s] ]
    /\ cur' = [ s \in Slots |-> IF s \in Fresh(cfg) THEN 0 ELSE cur[s] ]
    /\ woff' = [ s \in Slots |-> IF s \in Fresh(cfg) THEN 0 ELSE woff[s] ]
    /\ hopen' = [ s \in Slots |-> IF s \in Fresh(cfg) THEN TRUE ELSE hopen[s] ]
    /\ stop' = [ s \in Slots |-> IF s \in Fresh(cfg) THEN FALSE ELSE stop[s] ]
    /\ mon' = [ s \in Slots |-> IF s \in Fresh(cfg) THEN MonStart(cfg, s) ELSE mon[s] ]
    /\ resets' = [ s \in Slots |-> IF s \in Fresh(cfg) THEN 0 ELSE resets[s] ]
    /\ fixedEnc' = [ s \in Slots |-> IF s \in Fresh(cfg) THEN "" ELSE fixedEnc[s] ]
    /\ path' = [ s \in Slots |-> IF s \in Fresh(cfg) THEN Val(mgr'[s]) ELSE path[s] ]
    /\ stdinOpen' = (cfg.stdin \/ stdinOpen)
    /\ spawned' = spawned + 1
    /\ popen' = Some(spawned + 1)
    /\ oscode' = oscode
    /\ kids' = NoKids
    /\ kret' = kret
    /\ written' = NoLines
    /\ got' = NoLines
    /\ nwritten' = nwritten

\* A start() without its assertion.
StartAlways == TRUE

\* start()'s assertion: no process is attached.
StartAllowed == popen = None

\* start()
Start ==
    /\ pc = "idle"
    /\ IF StartAllowed
       THEN /\ spawned < MaxStarts
            /\ DoStart
            /\ err' = ""
            /\ result' = NoResult
            /\ UNCHANGED << cfg, waitVars >>
       ELSE /\ err' = "AssertionError"
            /\ UNCHANGED << cfg, popen, stdinOpen, procVars, mgrVars, strmVars,
                            waitVars, result, histVars >>

\* The manager slots in use (one in merge mode).
Used == { Store(s) : s \in { t \in Slots : mgr[t] # None } }

\* The files delete_file() removes in clean().
CleanDeletes(del) ==
    IF del THEN { Val(mgr[s]) : s \in { t \in Slots : mgr[t] # None } } ELSE { }

\* clean() past its "if not self._popen: return", the kill not raising.
DoClean(del, k) ==
    /\ oscode' = KillCode(k)
    /\ spawned' = spawned
    /\ stdinOpen' = FALSE
    /\ disk' = disk \ CleanDeletes(del)
    /\ nfiles' = nfiles
    /\ mgr' = [ s \in Slots |-> None ]
    /\ popen' = None
    /\ stop' = [ s \in Slots |-> stop[s] \/ s \in Used ]
    /\ hopen' = [ s \in Slots |-> hopen[s] /\ s \notin Used ]
    /\ file' = [ s \in Slots |-> IF s \in Used /\ del THEN << >> ELSE file[s] ]
    /\ cur' = [ s \in Slots |-> IF s \in Used THEN 0 ELSE cur[s] ]
    /\ woff' = [ s \in Slots |-> IF s \in Used THEN 0 ELSE woff[s] ]
    /\ fixedEnc' = [ s \in Slots |-> IF s \in Used THEN "" ELSE fixedEnc[s] ]
    /\ UNCHANGED << mon, resets, path, kids, kret >>

\* clean(delete_output_file)
Clean(del) ==
    /\ pc = "idle"
    /\ IF popen = None
       THEN /\ err' = ""
            /\ UNCHANGED << cfg, popen, stdinOpen, procVars, mgrVars, strmVars,
                            waitVars, result, histVars >>
       ELSE \E k \in KillOutcomes :
              IF KillRaises(k)
              THEN /\ err' = "TimeoutExpired"
                   /\ UNCHANGED << cfg, popen, stdinOpen, procVars, mgrVars,
                                   strmVars, waitVars, result, histVars >>
              ELSE /\ DoClean(del, k)
                   /\ err' = ""
                   /\ UNCHANGED << cfg, waitVars, result, histVars >>

\* kill()
Kill ==
    /\ pc = "idle"
    /\ IF popen = None
       THEN /\ err' = "AssertionError"
            /\ UNCHANGED oscode
       ELSE \E k \in KillOutcomes :
              /\ oscode' = KillCode(k)
              /\ err' = IF KillRaises(k) THEN "TimeoutExpired" ELSE ""
    /\ UNCHANGED << cfg, popen, stdinOpen, spawned, kids, kret, mgrVars,
                    strmVars, waitVars, result, histVars >>

\* How one process answers kill() and wait(1) in _kill_process_tree: it
\* dies; psutil raises AccessDenied / NoSuchProcess / OSError; or it is
\* still there after the second and wait(1) raises psutil.TimeoutExpired.
Responses == { "dies", "denied", "lingers" }

\* The root (0) and the descendants.
Procs == 0 .. MaxKids

\* The for loop over the enumerated children, from child i on: a caught
\* exception leaves the child and goes on, TimeoutExpired leaves the loop
\* and the function.
RECURSIVE KillChildren(_, _, _)
KillChildren(ks, resp, i) ==
    IF i > MaxKids THEN [ kids |-> ks, raised |-> FALSE ]
    ELSE IF ks[i] # "run" THEN KillChildren(ks, resp, i + 1)
    ELSE IF resp[i] = "dies"
         THEN KillChildren([ ks EXCEPT ![i] = "dead" ], resp, i + 1)
    ELSE IF resp[i] = "denied" THEN KillChildren(ks, resp, i + 1)
    ELSE [ kids |-> ks, raised |-> TRUE ]

\* _kill_process_tree(pid) on a running root: enum is how psutil.Process /
\* children() ends, resp how each process answers.
KillProcessTree(ks, enum, resp) ==
    IF enum = "denied"
    THEN [ kids |-> ks, root |-> FALSE, ret |-> Some(FALSE), raised |-> FALSE ]
    ELSE LET c == KillChildren(ks, resp, 1)
         IN  IF c.raised \/ resp[0] = "lingers"
             THEN [ kids |-> c.kids, root |-> FALSE, ret |-> None, raised |-> TRUE ]
             ELSE IF resp[0] = "denied"
             THEN [ kids |-> c.kids, root |-> FALSE, ret |-> Some(FALSE),
                    raised |-> FALSE ]
             ELSE [ kids |-> c.kids, root |-> TRUE,
                    ret |-> Some(\A i \in Kids : c.kids[i] # "run"),
                    raised |-> FALSE ]

\* kill() on a child that may have forked: the pass over the tree, process
\* by process.
KillTree ==
    /\ pc = "idle"
    /\ IF popen = None
       THEN /\ err' = "AssertionError"
            /\ UNCHANGED << oscode, kids, kret >>
       ELSE IF ~ Living
       THEN /\ err' = ""
            /\ kret' = None
            /\ UNCHANGED << oscode, kids >>
       ELSE \E enum \in { "ok", "denied" }, resp \in [ Procs -> Responses ] :
              LET t == KillProcessTree(kids, enum, resp)
              IN  /\ oscode' = IF t.root
                               THEN [ oscode EXCEPT ![Val(popen)] = Some(0 - SIGKILL) ]
                               ELSE oscode
                  /\ kids' = t.kids
                  /\ kret' = IF t.raised THEN kret ELSE t.ret
                  /\ err' = IF t.raised THEN "TimeoutExpired" ELSE ""
    /\ UNCHANGED << cfg, popen, stdinOpen, spawned, mgrVars, strmVars, waitVars,
                    result, histVars >>

\* is_living()
IsLiving ==
    /\ pc = "idle"
    /\ err' = IF popen = None THEN "AssertionError" ELSE ""
    /\ UNCHANGED << cfg, popen, stdinOpen, procVars, mgrVars, strmVars, waitVars,
                    result, histVars >>

\* What detect_bytes_encoding may answer ("" for None).
OracleAnswers == { "", "utf-8", "legacy" }

\* The oracle is consulted only for a line that fails to decode: with no
\* such byte in the file its answer is never asked for.
Oracles(s) ==
    IF \E i \in 1 .. Len(file[Store(s)]) : file[Store(s)][i] >= 128
    THEN OracleAnswers ELSE { "" }

\* pick_stdout / pick_stderr: ([], 0) without a manager, and for stderr in
\* merge mode; else the manager's pick_lines, i.e. the reader's readlines.
Picked(s, n, maxlen, strict, oracle) ==
    IF (s = "err" /\ cfg.merge) \/ mgr[s] = None
    THEN [ lines |-> << >>, size |-> 0, cur |-> cur[Store(s)],
           fixed |-> fixedEnc[Store(s)], raised |-> FALSE ]
    ELSE ReadLines(file[Store(s)], cur[Store(s)], fixedEnc[Store(s)],
                   n, maxlen, strict, oracle)

\* The reader state a pick leaves behind.
PickEffect(s, r) ==
    /\ cur' = [ cur EXCEPT ![Store(s)] = r.cur ]
    /\ fixedEnc' = [ fixedEnc EXCEPT ![Store(s)] = r.fixed ]
    /\ got' = [ got EXCEPT ![s] = IF r.raised THEN @ ELSE @ \o r.lines ]
    /\ UNCHANGED << file, woff, hopen, stop, mon, resets, path, written, nwritten >>

\* pick_stdout(line_num) / pick_stderr(line_num) called by the user.
Pick(s, n) ==
    /\ pc = "idle"
    /\ \E oracle \in Oracles(s) :
         LET r == Picked(s, n, -1, FALSE, oracle)
         IN  /\ PickEffect(s, r)
             /\ err' = IF r.raised THEN "CustomError" ELSE ""
    /\ UNCHANGED << cfg, popen, stdinOpen, procVars, mgrVars, waitVars, result >>

PickStdout == \E n \in LineNums : Pick("out", n)

\* pick_stdout / pick_stderr with strict_decode_mode given as well.
PickWith(s, n, maxlen, strict, oracle) ==
    /\ pc = "idle"
    /\ LET r == Picked(s, n, maxlen, strict, oracle)
       IN  /\ PickEffect(s, r)
           /\ err' = IF r.raised THEN "CustomError" ELSE ""
    /\ UNCHANGED << cfg, popen, stdinOpen, procVars, mgrVars, waitVars, result >>

PickText ==
    \E n \in LineNums, strict \in BOOLEAN, oracle \in Oracles("out") :
        PickWith("out", n, -1, strict, oracle)

\* pick_stdout with max_len_one_line given as well.
MaxLens == (0 - MaxLen) .. MaxLen

PickLen ==
    \E n \in LineNums, maxlen \in MaxLens, oracle \in Oracles("out") :
        PickWith("out", n, maxlen, FALSE, oracle)

PickStderr == \E n \in LineNums : Pick("err", n)

\* ------------------------------------------------------------ the wait loop
\* wait(timeout): enters _wait with del_tmpfile = True.
Wait ==
    /\ pc = "idle"
    /\ \E t \in BOOLEAN :
         /\ wtimeout' = t
         /\ wdel' = TRUE
    /\ pc' = "backlog"
    /\ buf' = NoLines
    /\ err' = ""
    /\ UNCHANGED << cfg, popen, stdinOpen, procVars, mgrVars, strmVars, result,
                    histVars >>

\* run(timeout, del_tmpfile): start(), then _wait.
Run ==
    /\ pc = "idle"
    /\ IF StartAllowed
       THEN /\ spawned < MaxStarts
            /\ DoStart
            /\ \E t \in BOOLEAN, d \in BOOLEAN :
                 /\ wtimeout' = t
                 /\ wdel' = d
            /\ pc' = "backlog"
            /\ buf' = NoLines
            /\ err' = ""
            /\ result' = NoResult
            /\ UNCHANGED cfg
       ELSE /\ err' = "AssertionError"
            /\ UNCHANGED << cfg, popen, stdinOpen, procVars, mgrVars, strmVars,
                            waitVars, result, histVars >>

\* _wait is left (return or raise): its locals are gone.
LeaveWait ==
    /\ pc' = "idle"
    /\ wtimeout' = FALSE
    /\ wdel' = TRUE
    /\ buf' = NoLines

\* The loop condition, first operand: still_remain_output_to_read().
WaitBacklog ==
    /\ pc = "backlog"
    /\ pc' = IF StillRemain THEN "pick_err" ELSE "alive"
    /\ UNCHANGED << cfg, popen, stdinOpen, procVars, mgrVars, strmVars,
                    wtimeout, wdel, buf, err, result, histVars >>

\* A loop that ends as soon as the backlog is empty, child alive or not.
AliveNextIgnored == "ret"

\* "or is_living()": the body runs again while the child lives.
AliveNext == IF Living THEN "pick_err" ELSE "ret"

\* The loop condition, second operand: is_living(), with its assertion.
WaitAlive ==
    /\ pc = "alive"
    /\ IF popen = None
       THEN /\ LeaveWait
            /\ err' = "AssertionError"
       ELSE /\ pc' = AliveNext
            /\ UNCHANGED << wtimeout, wdel, buf, err >>
    /\ UNCHANGED << cfg, popen, stdinOpen, procVars, mgrVars, strmVars,
                    result, histVars >>

\* Where the loop body goes after the stdout drain.
AfterDrain == IF wtimeout THEN "deadline" ELSE "backlog"

\* One drain of the loop body: pick_stderr() or pick_stdout() with their
\* defaults (all lines, max_len_one_line = -1, not strict), appended to the
\* local buffer.
WaitPick(s, at, next) ==
    /\ pc = at
    /\ \E oracle \in Oracles(s) :
         LET r == Picked(s, -1, -1, FALSE, oracle)
         IN  /\ PickEffect(s, r)
             /\ buf' = [ buf EXCEPT ![s] = @ \o r.lines ]
    /\ pc' = next
    /\ UNCHANGED << cfg, popen, stdinOpen, procVars, mgrVars, wtimeout, wdel,
                    err, result >>

WaitPickErr == WaitPick("err", "pick_err", "pick_out")

WaitPickOut == WaitPick("out", "pick_out", AfterDrain)

\* The drain line by line: one round of the while loop of readlines
\* (line_num = -1) inside pick_stderr() / pick_stdout().  The loop goes on
\* after a line and ends when readline() finds nothing (or what it finds
\* is cut to nothing); the child may write between two rounds.
WaitDrain(s, at, next) ==
    /\ pc = at
    /\ LET r == Picked(s, 1, -1, FALSE, "")
       IN  /\ PickEffect(s, r)
           /\ buf' = [ buf EXCEPT ![s] = @ \o r.lines ]
           /\ pc' = IF r.lines = << >> THEN next ELSE at
    /\ UNCHANGED << cfg, popen, stdinOpen, procVars, mgrVars, wtimeout, wdel,
                    err, result >>

DrainErr == WaitDrain("err", "pick_err", "pick_out")

DrainOut == WaitDrain("out", "pick_out", AfterDrain)

\* remaining_time <= 0, or not: the clock is not modelled.
WaitDeadline ==
    /\ pc = "deadline"
    /\ pc' \in { "backlog", "kill" }
    /\ UNCHANGED << cfg, popen, stdinOpen, procVars, mgrVars, strmVars,
                    wtimeout, wdel, buf, err, result, histVars >>

\* The TimeoutError _wait raises: the buffers as they are.
TimeoutSignal(k) ==
    [ kind |-> "TimeoutError", stdout |-> buf["out"], stderr |-> buf["err"],
      pid |-> Val(popen), killed |-> KillRet(k) ]

\* A timeout path that cleans up before raising.
WaitKillCleaning ==
    /\ pc = "kill"
    /\ LeaveWait
    /\ popen # None
    /\ DoClean(wdel, "ok")
    /\ result' = TimeoutSignal("ok")
    /\ err' = "TimeoutError"
    /\ UNCHANGED << cfg, histVars >>

\* self.kill(); raise self.TimeoutError(...)
WaitKill ==
    /\ pc = "kill"
    /\ LeaveWait
    /\ IF popen = None
       THEN /\ err' = "AssertionError"
            /\ UNCHANGED << oscode, result >>
       ELSE \E k \in KillOutcomes :
              /\ oscode' = KillCode(k)
              /\ IF KillRaises(k)
                 THEN /\ err' = "TimeoutExpired"
                      /\ result' = result
                 ELSE /\ err' = "TimeoutError"
                      /\ result' = TimeoutSignal(k)
    /\ UNCHANGED << cfg, popen, stdinOpen, spawned, kids, kret, mgrVars,
                    strmVars, histVars >>

\* The returncode property: None without a process, else poll().
Returncode == IF popen = None THEN None ELSE oscode[Val(popen)]

\* ProcResult(self.returncode, stdout_lines, stderr_lines)
ProcResult ==
    [ kind |-> "ProcResult", returncode |-> Returncode,
      stdout |-> buf["out"], stderr |-> buf["err"],
      pid |-> IF popen = None THEN 0 ELSE Val(popen) ]

\* After the loop: build the result, clean(del_tmpfile), return.
WaitReturn ==
    /\ pc = "ret"
    /\ LeaveWait
    /\ IF popen = None
       THEN /\ result' = ProcResult
            /\ err' = ""
            /\ UNCHANGED << popen, stdinOpen, procVars, mgrVars, strmVars >>
       ELSE \E k \in KillOutcomes :
              IF KillRaises(k)
              THEN /\ err' = "TimeoutExpired"
                   /\ UNCHANGED << popen, stdinOpen, procVars, mgrVars,
                                   strmVars, result >>
              ELSE /\ DoClean(wdel, k)
                   /\ result' = ProcResult
                   /\ err' = ""
    /\ UNCHANGED << cfg, histVars >>

\* ------------------------------------------------------------- the child
\* The monitor of slot s is between its decision to reset and the end of
\* the reset.
Resetting(s) == mon[s] \in { "r_seek", "r_trunc", "w_seek", "w_trunc" }

Epoch(s) == IF Resetting(s) THEN -1 ELSE resets[s]

\* The attached child writes its next line to stdout or stderr; the write
\* lands at the offset of the manager's write handle, which it shares.
ChildWrite(s) ==
    /\ popen # None
    /\ Living
    /\ mgr[s] # None
    /\ nwritten < MaxLines
    /\ LET st == Store(s)
           k == nwritten + 1
       IN  /\ file' = [ file EXCEPT ![st] = WriteAt(@, woff[st], LineBytes(k)) ]
           /\ woff' = [ woff EXCEPT ![st] = @ + Len(LineBytes(k)) ]
           /\ written' = [ written EXCEPT ![st] = Append(@, << k, Epoch(st) >>) ]
           /\ nwritten' = k
    /\ UNCHANGED << cfg, popen, stdinOpen, procVars, mgrVars, cur, hopen, stop,
                    mon, resets, fixedEnc, path, waitVars, err, result, got >>

ChildWriteOut == ChildWrite("out")

ChildWriteErr == ChildWrite("err")

\* The bytes a child writes one at a time: a letter, b'\n', and a byte
\* that is no UTF-8.
ByteAlphabet == { 65, NL, 200 }

\* The attached child writes one byte to stdout: a line may reach the file
\* in several pieces, and the reader may run in between.
ChildWriteByte ==
    /\ popen # None
    /\ Living
    /\ mgr["out"] # None
    /\ Len(file["out"]) < MaxBytes
    /\ \E b \in ByteAlphabet :
         file' = [ file EXCEPT !["out"] = WriteAt(@, woff["out"], << b >>) ]
    /\ woff' = [ woff EXCEPT !["out"] = @ + 1 ]
    /\ UNCHANGED << cfg, popen, stdinOpen, procVars, mgrVars, cur, hopen, stop,
                    mon, resets, fixedEnc, path, waitVars, err, result, histVars >>

\* The attached child forks a descendant.
ChildFork ==
    /\ popen # None
    /\ Living
    /\ \E i \in Kids :
         /\ kids[i] = "none"
         /\ kids' = [ kids EXCEPT ![i] = "run" ]
    /\ UNCHANGED << cfg, popen, stdinOpen, spawned, oscode, kret, mgrVars,
                    strmVars, waitVars, err, result, histVars >>

\* A descendant exits by itself.
KidExit ==
    /\ \E i \in Kids :
         /\ kids[i] = "run"
         /\ kids' = [ kids EXCEPT ![i] = "dead" ]
    /\ UNCHANGED << cfg, popen, stdinOpen, spawned, oscode, kret, mgrVars,
                    strmVars, waitVars, err, result, histVars >>

\* A running child (attached or not) exits with a status of its own.
ChildExit ==
    /\ \E p \in Pids, c \in ExitCodes :
         /\ Running(p)
         /\ oscode' = [ oscode EXCEPT ![p] = Some(c) ]
    /\ UNCHANGED << cfg, popen, stdinOpen, spawned, kids, kret, mgrVars,
                    strmVars, waitVars, err, result, histVars >>

\* ------------------------------------------------------ file_size_monitor
monUnchanged == << cfg, popen, stdinOpen, procVars, mgrVars, waitVars, err,
                   result, histVars, hopen, stop, fixedEnc, path >>

\* One round of the loop up to the reset: the exit_event test, getsize
\* (FileNotFoundError, and the thread dies, if the file is gone) and the
\* comparison; without overflow the thread sleeps and comes back here.
MonCheck(s) ==
    /\ mon[s] = "check"
    /\ (~ stop[s] /\ Overflow(Len(file[s]), cfg.max[s])) => resets[s] < MaxResets
    /\ mon' = [ mon EXCEPT ![s] =
                  IF stop[s] THEN "exited"
                  ELSE IF path[s] \notin disk THEN "crashed"
                  ELSE IF Overflow(Len(file[s]), cfg.max[s]) THEN "r_seek"
                  ELSE "check" ]
    /\ UNCHANGED << monUnchanged, file, cur, woff, resets >>

\* One step of the reset on a handle; on a closed handle it raises
\* ValueError and the thread dies.
MonStep(s, at, next) ==
    /\ mon[s] = at
    /\ mon' = [ mon EXCEPT ![s] = IF hopen[s] THEN next ELSE "crashed" ]

\* read handle: file_obj.seek(0)
MonSeekR(s) ==
    /\ MonStep(s, "r_seek", "r_trunc")
    /\ cur' = [ cur EXCEPT ![s] = IF hopen[s] THEN 0 ELSE @ ]
    /\ UNCHANGED << monUnchanged, file, woff, resets >>

\* read handle (opened "rb+", so writable()): file_obj.truncate(0), and
\* file_obj.flush(), which finds nothing buffered.
MonTruncR(s) ==
    /\ MonStep(s, "r_trunc", "w_seek")
    /\ file' = [ file EXCEPT ![s] = IF hopen[s] THEN << >> ELSE @ ]
    /\ UNCHANGED << monUnchanged, cur, woff, resets >>

\* write handle: file_obj.seek(0) moves the offset the child writes at
MonSeekW(s) ==
    /\ MonStep(s, "w_seek", "w_trunc")
    /\ woff' = [ woff EXCEPT ![s] = IF hopen[s] THEN 0 ELSE @ ]
    /\ UNCHANGED << monUnchanged, file, cur, resets >>

\* write handle: file_obj.truncate(0) and file_obj.flush(); then
\* time.sleep and the next round
MonTruncW(s) ==
    /\ MonStep(s, "w_trunc", "check")
    /\ file' = [ file EXCEPT ![s] = IF hopen[s] THEN << >> ELSE @ ]
    /\ resets' = [ resets EXCEPT ![s] = IF hopen[s] THEN @ + 1 ELSE @ ]
    /\ UNCHANGED << monUnchanged, cur, woff >>

MonitorCheck == \E s \in Slots : MonCheck(s)

MonitorSeekR == \E s \in Slots : MonSeekR(s)

MonitorTruncR == \E s \in Slots : MonTruncR(s)

MonitorSeekW == \E s \in Slots : MonSeekW(s)

MonitorTruncW == \E s \in Slots : MonTruncW(s)

\* ------------------------------------------------------------------- Next
CleanCall == \E del \in BOOLEAN : Clean(del)

\* The control thread and the child.
NextCtl ==
    \/ Start
    \/ Run
    \/ Wait
    \/ CleanCall
    \/ Kill
    \/ IsLiving
    \/ PickStdout
    \/ PickStderr
    \/ WaitBacklog
    \/ WaitAlive
    \/ WaitPickErr
    \/ WaitPickOut
    \/ WaitDeadline
    \/ WaitKill
    \/ WaitReturn
    \/ ChildWriteOut
    \/ ChildWriteErr
    \/ ChildExit

\* With the monitor threads.
Next ==
    \/ NextCtl
    \/ MonitorCheck
    \/ MonitorSeekR
    \/ MonitorTruncR
    \/ MonitorSeekW
    \/ MonitorTruncW

\* The control thread and a child that writes stdout byte by byte.
NextText ==
    \/ Start
    \/ Run
    \/ Wait
    \/ PickStdout
    \/ WaitBacklog
    \/ WaitAlive
    \/ WaitPickErr
    \/ WaitPickOut
    \/ WaitDeadline
    \/ WaitKill
    \/ WaitReturn
    \/ ChildWriteByte
    \/ ChildExit

Spec == Init /\ [][NextCtl]_vars

\* The wait loop with its drains taken line by line.
NextDrain ==
    \/ Run
    \/ Wait
    \/ WaitBacklog
    \/ WaitAlive
    \/ DrainErr
    \/ DrainOut
    \/ WaitDeadline
    \/ WaitKill
    \/ WaitReturn
    \/ ChildWriteOut
    \/ ChildWriteErr
    \/ ChildExit

\* A controller that collects both streams, each in its own file.
DrainConfigs == { Config(TRUE, TRUE, FALSE, FALSE, -1, -1) }

InitDrain == InitOf(DrainConfigs)

SpecDrain == InitDrain /\ [][NextDrain]_vars

\* The control thread killing a child that forks.
NextKill ==
    \/ Start
    \/ KillTree
    \/ ChildFork
    \/ KidExit
    \/ ChildExit

SpecKill == Init /\ [][NextKill]_vars

\* Every way of asking for merge mode: __init__ lets through only those
\* that collect both streams.
MergeCandidates == { Config(o, e, TRUE, FALSE, -1, -1) : o, e \in BOOLEAN }

InitMerge == InitOf(MergeCandidates)

SpecMerge == InitMerge /\ [][NextCtl]_vars

\* A controller that collects stdout only, without a ceiling.
TextConfigs == { Config(TRUE, FALSE, FALSE, FALSE, -1, -1) }

InitText == InitOf(TextConfigs)

SpecText == InitText /\ [][NextText]_vars

\* The reader alone: the control thread picks, strictly or not, what a
\* child writes byte by byte.
NextRead ==
    \/ Start
    \/ PickText
    \/ ChildWriteByte
    \/ ChildExit

SpecRead == InitText /\ [][NextRead]_vars

\* The reader alone, with the caller choosing max_len_one_line.
NextLen ==
    \/ Start
    \/ PickLen
    \/ ChildWriteByte
    \/ ChildExit

SpecLen == InitText /\ [][NextLen]_vars

SpecMon == InitMon /\ [][Next]_vars

\* ----------------------------------------------------------------- claims
Range(q) == { q[i] : i \in 1 .. Len(q) }

\* The ids of the lines the attached child wrote into the file of slot st.
WrittenIds(st) == { written[st][i][1] : i \in 1 .. Len(written[st]) }

\* Those it wrote after a completed overflow reset, none being under way.
PostResetIds(st) ==
    { written[st][i][1] : i \in { j \in 1 .. Len(written[st]) : written[st][j][2] >= 1 } }

\* The lines pick_stdout / pick_stderr handed out since start().
Delivered(st) == Range(got[st])

ResultLines(r, st) == IF st = "out" THEN r.stdout ELSE r.stderr

\* No overflow reset has happened or is under way.
NoReset == \A s \in Slots : resets[s] = 0 /\ ~ Resetting(s)

\* Everything but err.
allButErr == << cfg, popen, stdinOpen, procVars, mgrVars, strmVars, waitVars,
                result, histVars >>

Dead(p) == oscode[p] # None

\* C1: after a normal return of wait()/run() with no overflow reset, every
\* line the child wrote to a collected stream is in the ProcResult (or was
\* handed out by a pick_* call made before the wait): nothing is dropped.
C1_NoOverflowLossless ==
    (result.kind = "ProcResult" /\ NoReset) =>
        \A st \in Slots : \A k \in WrittenIds(st) :
            LineText(k) \in Range(ResultLines(result, st)) \cup Delivered(st)

\* C2: a ProcResult is returned only once the child has exited; its
\* returncode is the status the child ended with, never None.
C2_ReturnAfterExit ==
    result.kind = "ProcResult" =>
        /\ result.pid \in Pids
        /\ Dead(result.pid)
        /\ result.returncode # None
        /\ result.returncode = oscode[result.pid]

C2_Witness ==
    /\ result.kind = "ProcResult"
    /\ result.returncode = Some(3)
    /\ result.stdout # << >>

\* C3: when _wait raises TimeoutError, every line the child has written to
\* a collected stream by then is in the signal's partial buffers (or was
\* handed out by an earlier call).
C3_TimeoutCarriesAll ==
    [][ (pc = "kill" /\ err' = "TimeoutError") =>
          \A st \in Slots : \A k \in WrittenIds(st) :
              LineText(k) \in Range(ResultLines(result', st)) \cup Delivered(st) ]_vars

\* C4: when the deadline check raises TimeoutError and the tree kill did
\* not fail, the child is not running at the raise, and a child that is
\* not running never runs again.
C4_KilledBeforeRaise ==
    /\ [] ( (result.kind = "TimeoutError" /\ result.killed # Some(FALSE))
              => Dead(result.pid) )
    /\ [][ \A p \in Pids : Dead(p) => oscode'[p] = oscode[p] ]_vars

C4_Witness ==
    /\ result.kind = "TimeoutError"
    /\ result.killed = Some(TRUE)
    /\ oscode[result.pid] = Some(0 - SIGKILL)
    /\ popen = Some(result.pid)

\* A TimeoutError was raised and the process is still attached.
AfterTimeout == result.kind = "TimeoutError" /\ popen # None

\* What the timeout path leaves behind, and what start() does then.
C5_TimeoutKeeps ==
    /\ (pc = "kill" /\ err' = "TimeoutError") =>
          /\ popen' = popen /\ popen' # None
          /\ mgr' = mgr /\ disk' = disk /\ hopen' = hopen /\ stdinOpen' = stdinOpen
          /\ \A s \in Slots : mgr'[s] # None => Val(mgr'[s]) \in disk'
    /\ (AfterTimeout /\ (Start \/ Run)) =>
          /\ err' = "AssertionError"
          /\ UNCHANGED allButErr

\* C5 as stated: after a TimeoutError everything stays attached, start()
\* fails, and only an explicit clean() detaches the process and captures.
C5_OnlyExplicitClean ==
    [][ /\ C5_TimeoutKeeps
        /\ (AfterTimeout /\ (popen' # popen \/ mgr' # mgr \/ disk' # disk))
              => CleanCall ]_vars

\* C5, amended: after a TimeoutError everything stays attached, start()
\* fails, and only clean() detaches the process and captures: called by
\* the user, or by a later wait() that returns normally.
C5_OnlyCleanDetaches ==
    [][ /\ C5_TimeoutKeeps
        /\ (AfterTimeout /\ (popen' # popen \/ mgr' # mgr \/ disk' # disk))
              => (CleanCall \/ WaitReturn) ]_vars

C5_Witness ==
    /\ AfterTimeout
    /\ err = "AssertionError"
    /\ \E s \in Slots : mgr[s] # None /\ Val(mgr[s]) \in disk

\* C6: at most one process is attached: the attached child is the one
\* spawned last; start()/run() on an attached controller raises and
\* changes nothing; a child is spawned only with none attached; a handle
\* is detached only by clean(); is_living() and kill() raise with none
\* attached.
C6_OneProcess ==
    /\ [] (popen # None => Val(popen) = spawned)
    /\ [][ /\ ((Start \/ Run) /\ popen # None) =>
                 (err' = "AssertionError" /\ UNCHANGED allButErr)
           /\ spawned' # spawned =>
                 (popen = None /\ spawned' = spawned + 1 /\ popen' = Some(spawned'))
           /\ (popen # None /\ popen' # popen) =>
                 (popen' = None /\ (CleanCall \/ WaitReturn))
           /\ ((IsLiving \/ Kill) /\ popen = None) =>
                 (err' = "AssertionError" /\ UNCHANGED allButErr) ]_vars

C6_Witness ==
    /\ spawned = 2
    /\ popen = Some(2)
    /\ Dead(1)
    /\ err = ""

\* C7: clean() never raises; with no process attached it changes nothing;
\* on an attached controller it leaves the child not running, stdin
\* closed, both captures torn down and the handle detached.
C7_CleanSafe ==
    [][ CleanCall =>
          /\ err' = ""
          /\ popen = None => UNCHANGED allButErr
          /\ popen # None =>
                /\ oscode'[Val(popen)] # None
                /\ ~ stdinOpen'
                /\ \A s \in Slots : mgr'[s] = None /\ ~ hopen'[s]
                /\ popen' = None ]_vars

\* C8: after a clean that deletes output files (clean(True), or the one
\* a returning wait()/run() performs with del_tmpfile) no backing file this
\* controller created is left on disk.
C8_NoFileLeft ==
    [][ (popen # None /\ popen' = None /\ (Clean(TRUE) \/ (WaitReturn /\ wdel)))
          => disk' = { } ]_vars

\* The streams pick_stdout / pick_stderr read from a manager.
Readable == { s \in Slots : mgr[s] # None /\ ~ (s = "err" /\ cfg.merge) }

\* C9: a line written after a completed overflow reset is returned by the
\* reads that follow: while no reset is under way, each such line has been
\* handed out or is among the lines a read of all available lines returns.
C9_PostResetCaptured ==
    \A s \in Readable :
        ~ Resetting(Store(s)) =>
            \A k \in PostResetIds(Store(s)) :
                LineText(k) \in Delivered(s)
                                \cup Range(Picked(s, -1, -1, FALSE, "").lines)

NoDup(q) == \A i, j \in 1 .. Len(q) : i # j => q[i] # q[j]

\* C10: a pick with line_num = 0 leaves the read cursor where it is, and
\* no line is handed out twice.
C10_NoRedelivery ==
    [][ /\ \A s \in Slots : Pick(s, 0) => cur' = cur
        /\ \A s \in Slots : NoDup(got'[s]) ]_vars

\* ------------------------------------------------- claims on the reader
Ascii(f) == \A i \in 1 .. Len(f) : f[i] < 128

\* The file ends with a line terminator (or is empty).
Complete(f) == f = << >> \/ f[Len(f)] = NL

\* The lines of file f from offset c on, without their terminators.
RECURSIVE SplitLines(_, _)
SplitLines(f, c) ==
    IF c >= Len(f) THEN << >>
    ELSE LET raw == ReadLine(f, c)
             body == IF raw[Len(raw)] = NL THEN SubSeq(raw, 1, Len(raw) - 1)
                     ELSE raw
         IN  << body >> \o SplitLines(f, c + Len(raw))

\* C11: round trip.  When the child has written whole ASCII lines to a
\* collected stdout and the reader has read up to the end of the file, the
\* lines handed out by pick_stdout and by the wait loop are exactly the
\* written lines, in order, without their terminators.
C11_RoundTrip ==
    ( /\ popen # None
      /\ mgr["out"] # None
      /\ Ascii(file["out"])
      /\ Complete(file["out"])
      /\ cur["out"] = Len(file["out"]) )
    => got["out"] = SplitLines(file["out"], 0)

\* -------------------------------------------------- claims on merge mode
\* The text of each line written into the file of slot st, in write order.
WrittenTexts(st) == [ i \in 1 .. Len(written[st]) |-> LineText(written[st][i][1]) ]

IsPrefix(a, b) == Len(a) <= Len(b) /\ SubSeq(b, 1, Len(a)) = a

\* a occurs in b as one run of consecutive elements.
IsInfix(a, b) ==
    \E i \in 0 .. Len(b) : i + Len(a) <= Len(b) /\ SubSeq(b, i + 1, i + Len(a)) = a

\* C12: merge mode.  A controller in merge mode collects both streams, in
\* one shared capture; a write to stderr lands in the shared file;
\* pick_stderr returns ([], 0) and moves nothing; the stderr sequence of
\* every ProcResult and TimeoutError is empty; the lines handed out for
\* stdout, and those of a result, are the lines of both streams in the
\* order they were written to the shared file.
C12_MergeMode ==
    /\ [] ( cfg.merge =>
              /\ cfg.collect_stdout /\ cfg.collect_stderr
              /\ mgr["err"] = mgr["out"]
              /\ file["err"] = << >>
              /\ got["err"] = << >>
              /\ buf["err"] = << >>
              /\ (result.kind # "none" => result.stderr = << >>)
              /\ IsPrefix(got["out"], WrittenTexts("out"))
              /\ (result.kind # "none" =>
                    IsInfix(result.stdout, WrittenTexts("out"))) )
    /\ [][ cfg.merge =>
             /\ ((\E n \in LineNums : Pick("err", n)) =>
                     cur' = cur /\ got' = got /\ err' = "")
             /\ (ChildWriteErr => Len(file'["out"]) > Len(file["out"])) ]_vars

\* A merged result holding two lines; in merge mode a write to stdout and
\* a write to stderr are the same step on the shared file.
C12_Witness ==
    /\ cfg.merge
    /\ result.kind = "ProcResult"
    /\ Len(result.stdout) = 2
    /\ result.stdout = WrittenTexts("out")
    /\ result.stderr = << >>

\* ------------------------------------------------------- claims on kill()
\* C13: kill() on a running child ends without an exception, whatever
\* happens to one descendant or to the enumeration, and returns True only
\* if afterwards the root has gone and no enumerated descendant runs;
\* kill() on a child that is already dead does nothing.
C13_KillTree ==
    [][ (KillTree /\ popen # None) =>
          /\ (~ Living =>
                oscode' = oscode /\ kids' = kids /\ kret' = None /\ err' = "")
          /\ (Living =>
                /\ err' = ""
                /\ (kret' = Some(TRUE) =>
                      /\ oscode'[Val(popen)] # None
                      /\ \A i \in Kids : kids'[i] # "run")) ]_vars

\* ---------------------------------------------- claims on the wait loop
\* Where the control thread is while it drains stream s.
DrainPc(s) == IF s = "err" THEN "pick_err" ELSE "pick_out"

\* What is left for the reader of slot s to read.
Unread(s) == Len(file[s]) - cur[s]

C15_MonitorStops ==
    \A s \in Slots :
        /\ (mon[s] # "off" /\ ~ hopen[s]) => stop[s]
        /\ mon[s] # "crashed"

\* C16: the write offset the child shares is never behind the reader's
\* cursor.
C16_WriteAheadOfRead == \A s \in Slots : woff[s] >= cur[s]

\* C17: a reset is begun only at a check that finds the file larger than
\* 1.5 x its ceiling; when a reset completes the read cursor and the write
\* offset are 0 and the file is empty; with a ceiling <= 0 there is no
\* monitor and never a reset.
C17_ResetRule ==
    /\ [] ( \A s \in Slots :
              cfg.max[s] <= 0 =>
                  mon[s] = "off" /\ resets[s] = 0 /\ ~ Resetting(s) )
    /\ [][ \A s \in Slots :
             /\ (~ Resetting(s) /\ Resetting(s)') =>
                    /\ mon[s] = "check"
                    /\ cfg.max[s] > 0
                    /\ 2 * Len(file[s]) > 3 * cfg.max[s]
             /\ resets'[s] > resets[s] =>
                    cur'[s] = 0 /\ woff'[s] = 0 /\ file'[s] = << >> ]_vars

\* --------------------------------------------- claims on the loop's order
\* The buffer of stream s gets lines in this step.
Buffers(s) == buf'[s] # buf[s] /\ IsPrefix(buf[s], buf'[s])

\* The reader of stream s has read all that is in its file.
Drained(s) == mgr[s] # None => cur[Store(s)] = Len(file[Store(s)])

\* The lines in the backing file of stream s, as text.
FileLines(s) ==
    LET ls == SplitLines(file[Store(s)], 0)
    IN  [ i \in 1 .. Len(ls) |-> Decode(ls[i], "utf-8") ]

\* C18: in an iteration of the wait loop the stderr drain comes first and
\* takes all stderr lines there are, the stdout drain follows and takes all
\* stdout lines there are, and only then comes the deadline check; a
\* buffer gets lines only in the drain of its stream; the lines buffered
\* for a stream are lines of its file, in the order of the file (compared
\* when the file holds whole ASCII lines).
C18_LoopOrder ==
    /\ [][ /\ (pc' = "pick_out" /\ pc # "pick_out") =>
                  pc = "pick_err" /\ (cfg.merge \/ Drained("err")')
           /\ (pc' = "deadline" /\ pc # "deadline") =>
                  pc = "pick_out" /\ Drained("out")'
           /\ (pc' = "kill" /\ pc # "kill") => pc = "deadline"
           /\ Buffers("err") => pc = "pick_err" /\ pc' = "pick_out"
           /\ Buffers("out") => pc = "pick_out" /\ pc' = AfterDrain ]_vars
    /\ [] ( \A s \in Slots :
              ( /\ pc # "idle"
                /\ Ascii(file[Store(s)])
                /\ Complete(file[Store(s)]) ) =>
                  IsInfix(buf[s], FileLines(s)) )

\* ------------------------------------------------- claims on the decoding
\* The raw lines readline() yields between offsets c and c2 of file f that
\* are not cut to nothing.
RECURSIVE RawCount(_, _, _)
RawCount(f, c, c2) ==
    IF c >= c2 \/ c >= Len(f) THEN 0
    ELSE LET raw == ReadLine(f, c)
         IN  (IF Len(PySlice(raw, -1)) > 0 THEN 1 ELSE 0)
             + RawCount(f, c + Len(raw), c2)

\* C19: no consumed line is dropped.  A read that moves the cursor over raw
\* lines either ends in the decode error or hands out one line for each of
\* them that is not empty.
C19_NoSilentDrop ==
    [][ (file' = file /\ cur'["out"] > cur["out"]) =>
          \/ err' = "CustomError"
          \/ Len(got'["out"]) - Len(got["out"])
                = RawCount(file["out"], cur["out"], cur'["out"]) ]_vars

\* The encoding the next read of stdout starts with.
CurEnc == IF fixedEnc["out"] = "" THEN "utf-8" ELSE fixedEnc["out"]

\* The next raw line of stdout as the read cuts it, and where it ends.
NextCut == PySlice(ReadLine(file["out"], cur["out"]), -1)
NextEnd == cur["out"] + Len(ReadLine(file["out"], cur["out"]))

\* The lines this step hands out for stdout.
NewLines == SubSeq(got'["out"], Len(got["out"]) + 1, Len(got'["out"]))

\* C20: the decode policy for a line that fails under the current
\* encoding.  A guess of the oracle becomes the learned encoding and the
\* line is tried again, so it is returned as the guess decodes it; with no
\* guess a strict read fails as a whole with the decode error and returns
\* nothing, while a non-strict read returns the line with replacement
\* characters and goes on with the lines that follow.
C20_DecodePolicy ==
    [][ \A n \in { -1, 1 }, strict \in BOOLEAN, oracle \in OracleAnswers :
          ( /\ PickWith("out", n, -1, strict, oracle)
            /\ mgr["out"] # None
            /\ Len(NextCut) > 0
            /\ ~ CanDecode(NextCut, CurEnc) ) =>
            /\ oracle # "" =>
                 /\ fixedEnc'["out"] = oracle
                 /\ err' = ""
                 /\ CanDecode(NextCut, oracle) =>
                        /\ NewLines # << >>
                        /\ NewLines[1] = Decode(NextCut, oracle)
            /\ (oracle = "" /\ strict) =>
                 /\ err' = "CustomError"
                 /\ NewLines = << >>
            /\ (oracle = "" /\ ~ strict) =>
                 /\ err' = ""
                 /\ fixedEnc' = fixedEnc
                 /\ NewLines # << >>
                 /\ NewLines[1] = Decode(NextCut, CurEnc)
                 /\ ReplacementChar \in Range(NewLines[1])
                 /\ Len(NewLines) = RawCount(file["out"], cur["out"], cur'["out"])
                 /\ ( /\ n = -1
                      /\ Len(PySlice(ReadLine(file["out"], NextEnd), -1)) > 0 ) =>
                        Len(NewLines) >= 2 /\ cur'["out"] > NextEnd ]_vars

\* A non-strict read has returned a line with a replacement character and
\* the line after it.
C20_Witness ==
    /\ err = ""
    /\ fixedEnc["out"] = ""
    /\ got["out"] = << << ReplacementChar >>, << 65 >> >>
    /\ cur["out"] = 4

\* ---------------------------------------------------------------- C21
\* A learned encoding other than the default.
Learned(e) == e \notin { "", "utf-8" }

\* The lines of a log that were decoded (the slice left bytes to decode).
DecodedEntries(log) == { i \in 1 .. Len(log) : Len(log[i].cut) > 0 }

\* C21: once the reader of a stream has learned an encoding other than the
\* default, every later line, in the same readlines call or in a later one,
\* starts from the learned encoding and not from the default; and when the
\* line decodes validly under the learned encoding the oracle is not asked
\* about it, the line is delivered as the learned encoding decodes it, and
\* the learned encoding stays what it was.
C21_StickyEncoding ==
    [][ \A n \in LineNums, strict \in BOOLEAN, oracle \in OracleAnswers :
          (PickWith("out", n, -1, strict, oracle) /\ mgr["out"] # None) =>
            LET r == Picked("out", n, -1, strict, oracle)
                valid == { i \in DecodedEntries(r.log) :
                             /\ Learned(r.log[i].fixed)
                             /\ CanDecode(r.log[i].cut, r.log[i].fixed) }
            IN  /\ \A i \in 1 .. Len(r.log) :
                      Learned(r.log[i].fixed) => r.log[i].enc = r.log[i].fixed
                /\ (Learned(fixedEnc["out"]) /\ r.log # << >>) =>
                      r.log[1].fixed = fixedEnc["out"]
                /\ \A i \in valid :
                      /\ r.log[i].asked = 0
                      /\ i < Len(r.log) => r.log[i + 1].fixed = r.log[i].fixed
                      /\ i = Len(r.log) => r.fixed = r.log[i].fixed
                /\ (Learned(fixedEnc["out"]) /\ valid = DecodedEntries(r.log)) =>
                      /\ fixedEnc'["out"] = fixedEnc["out"]
                      /\ err' = ""
                      /\ Len(NewLines) = Cardinality(valid)
                      /\ \A k \in 1 .. Len(NewLines) :
                            \E i \in valid :
                                NewLines[k] = Decode(r.log[i].cut, fixedEnc["out"])
      ]_vars

\* Two lines with a byte the default encoding rejects were read: the first
\* taught the reader the legacy encoding, the second, read later in the same
\* call or in a later call, was decoded with it.
C21_Witness ==
    /\ fixedEnc["out"] = "legacy"
    /\ file["out"] = << 200, NL, 200, NL >>
    /\ cur["out"] = 4
    /\ got["out"] = << << 1200 >>, << 1200 >> >>

\* ---------------------------------------------------------------- C22
\* The first m bytes of a raw line.
FirstBytes(raw, m) == SubSeq(raw, 1, Min(m, Len(raw)))

RECURSIVE RawBytes(_, _)
RawBytes(log, i) == IF i = 0 THEN 0 ELSE Len(log[i].raw) + RawBytes(log, i - 1)

\* C22: a pick cuts a raw line to max_len_one_line bytes only when that is
\* positive, and for zero or a negative value (the default -1 included)
\* decodes every line in full, no byte removed; the read stops before it has
\* its line_num lines only when a readline returned nothing; and the byte
\* count it returns is the sum of the raw bytes read, which is how far the
\* cursor advanced.
C22_TruncateOnlyPositive ==
    [][ \A n \in LineNums, maxlen \in MaxLens, oracle \in OracleAnswers :
          (PickWith("out", n, maxlen, FALSE, oracle) /\ mgr["out"] # None) =>
            LET r == Picked("out", n, maxlen, FALSE, oracle)
            IN  /\ \A i \in 1 .. Len(r.log) :
                      r.log[i].cut = IF maxlen > 0 THEN FirstBytes(r.log[i].raw, maxlen)
                                     ELSE r.log[i].raw
                /\ \/ n # -1 /\ Len(r.lines) >= n
                   \/ r.log # << >> /\ r.log[Len(r.log)].raw = << >>
                /\ r.size = RawBytes(r.log, Len(r.log))
                /\ r.size = cur'["out"] - cur["out"]
      ]_vars

====
